---- MODULE Spec2Model ----
(***************************************************************************)
(* A model of the ConvTexture GPU operation of                             *)
(* tensorflow/lite/delegates/gpu/cl/kernels/conv_texture.cc: the host-side *)
(* controller (CreateConvTexture, Compile, BindArguments, GetGridSize,     *)
(* Tune, AddToQueue) and the OpenCL kernel that GenerateConvCode emits,    *)
(* executed invocation by invocation over the dispatch grid.               *)
(***************************************************************************)
EXTENDS Integers, Sequences, FiniteSets, TLC

VARIABLES
  state,             \* lifecycle position of the controller object
  device,            \* creation_context.device
  definition_,       \* GPUOperation::definition_ (OperationDef)
  linked_operations_,\* number of linked elementwise operations (one argument each)
  kernel_size_, stride_, padding_, dilation_, block_size_,
  work_group_size_,
  weights_, biases_, \* device storage handles (0: not created)
  kernel_,           \* CLKernel: compiled program, bound arguments, binding counter
  cc,                \* locals of the last Compile call
  src_, dst_,        \* the currently bound tensors src_[0], dst_[0]
  queue,             \* CLCommandQueue: number of dispatches received, and the last one
  ret,               \* last call on the controller: name, returned status, collaborator calls
  run                \* execution of one dispatched kernel over its grid

config == <<device, definition_, linked_operations_, kernel_size_, stride_,
            padding_, dilation_, block_size_>>
vars == <<state, device, definition_, linked_operations_, kernel_size_, stride_,
          padding_, dilation_, block_size_, work_group_size_, weights_, biases_,
          kernel_, cc, src_, dst_, queue, ret, run>>

----------------------------------------------------------------------------
(* Bounds of the model. *)
MaxBatch == 2
MaxLinked == 1
MaxQueue == 1

(* Program constants. *)
DefaultWorkGroupX == 4
DefaultWorkGroupY == 4
DefaultWorkGroupZ == 2

----------------------------------------------------------------------------
(* Small vectors. *)
int2(a, b) == [x |-> a, y |-> b]
int3(a, b, c) == [x |-> a, y |-> b, z |-> c]
int4(a, b, c, d) == [x |-> a, y |-> b, z |-> c, w |-> d]

OK == "OK"

(* RETURN_IF_ERROR: the calls of a function body are made in order and the  *)
(* first one that does not return OK ends the function with that status.    *)
RECURSIVE RunUntilError(_)
RunUntilError(calls) ==
  IF calls = <<>> THEN <<>>
  ELSE IF Head(calls).status # OK THEN <<Head(calls)>>
  ELSE <<Head(calls)>> \o RunUntilError(Tail(calls))

StatusOf(trace) ==
  IF trace # <<>> /\ trace[Len(trace)].status # OK
  THEN trace[Len(trace)].status ELSE OK

Call(name, status) == [call |-> name, status |-> status]

----------------------------------------------------------------------------
(* The target device (CLDevice) and its capability queries. *)
Devices == {"Adreno3xx", "Adreno4xx", "Adreno5xx", "Mali"}
IsAdreno(d) == d \in {"Adreno3xx", "Adreno4xx", "Adreno5xx"}
IsAdreno3xx(d) == d = "Adreno3xx"
IsAdreno4xx(d) == d = "Adreno4xx"

Precisions == {"F32", "F16", "F32_F16"}
StorageTypes == {"TEXTURE_ARRAY", "IMAGE_BUFFER", "BUFFER"}

(* OperationDef: precision, the storage type of src_tensors[0], batch_support. *)
OperationDefs(precs, storages, batches) ==
  [precision : precs, storage_type : storages, batch_support : batches]
GetPrimaryStorageType(op_def) == op_def.storage_type

(* Convolution2DAttributes, as far as the constructor reads them. *)
Attributes(ks, ss, ps, ds) ==
  [weights_shape : ks, strides : ss, padding_prepended : ps, dilations : ds]

NoTensor == [Width |-> 0, Height |-> 0, Channels |-> 0, Depth |-> 0, Batch |-> 0, ptr |-> 0]
NoKernel == [compiled |-> FALSE, code |-> <<>>, options |-> <<>>, args |-> <<>>,
             binding_counter |-> 0]
NoCompile == [called |-> FALSE]
NoRun == [active |-> FALSE]
NoQueue == [submitted |-> 0, last |-> <<>>]
NoCall == [op |-> "none", status |-> OK, trace |-> <<>>, repeat |-> 0]

----------------------------------------------------------------------------
(* NeedStrideCorrection(op_def, stride) *)
NeedStrideCorrection(op_def, stride) == op_def.batch_support /\ stride.x # 1

Param(name, type) == [name |-> name, type |-> type]

(* Arguments of the linked operations: the same list is declared by         *)
(* GetArgsDeclaration and bound by BindArgs, one memory object per operation.*)
LinkedNames == <<"linked0", "linked1", "linked2">>
LinkedParams(n) == [i \in 1..n |-> Param(LinkedNames[i], "mem")]

(* The parameter list of main_function as GenerateConvCode emits it. *)
KernelParams(op_def, is1x1, stride, nlinked) ==
  <<Param("src_data", "mem"), Param("filters0", "mem"), Param("filters1", "mem"),
    Param("filters2", "mem"), Param("filters3", "mem"), Param("biases", "mem")>>
  \o LinkedParams(nlinked)
  \o <<Param("dst_data", "mem"), Param("src_size", "int4"), Param("dst_size", "int4")>>
  \o (IF ~is1x1 THEN <<Param("kernel_size", "int2"), Param("dilation", "int2")>> ELSE <<>>)
  \o (IF NeedStrideCorrection(op_def, stride) THEN <<Param("BATCH_SIZE", "int")>> ELSE <<>>)
  \o <<Param("stride", "int2"), Param("padding", "int2")>>

(* GenerateConvCode: the generated kernel, as the choices that shape its    *)
(* text: parameter list, addressing regime, tile size, store coordinates.   *)
GenerateConvCode(op_def, block_size, is1x1, adreno4xx_optimization, stride, dev, nlinked) ==
  [params |-> KernelParams(op_def, is1x1, stride, nlinked),
   precision |-> op_def.precision,
   is_image_buffer |-> (op_def.storage_type = "IMAGE_BUFFER"),
   block_size |-> block_size,
   is1x1 |-> is1x1,
   stride_correction |-> NeedStrideCorrection(op_def, stride),
   dst_x |-> IF is1x1 /\ adreno4xx_optimization THEN "xc0" ELSE "X",
   dst_y |-> IF is1x1 /\ adreno4xx_optimization THEN "yc0" ELSE "Y"]

(* UseFP16SIMD(device, precision, kernel1x1) *)
UseFP16SIMDAnyAdreno(dev, precision, kernel1x1) ==
  IsAdreno(dev) /\ precision = "F16" /\ kernel1x1
UseFP16SIMD(dev, precision, kernel1x1) ==
  IF ~IsAdreno(dev) THEN FALSE
  ELSE CASE precision = "F32" -> FALSE
         [] precision = "F32_F16" -> FALSE
         [] precision = "F16" -> IsAdreno3xx(dev) /\ kernel1x1

(* The locals of ConvTexture::Compile. *)
Is1x1 == kernel_size_.x = 1 /\ kernel_size_.y = 1
Adreno4xxOptimizationNoPaddingY ==
  /\ stride_.x = 1 /\ stride_.y = 1 /\ padding_.x = 0
  /\ IsAdreno4xx(device)
  /\ GetPrimaryStorageType(definition_) = "TEXTURE_ARRAY"
  /\ definition_.precision = "F16"
Adreno4xxOptimizationNoStrideX ==
  /\ stride_.y = 1 /\ padding_.x = 0 /\ padding_.y = 0
  /\ IsAdreno4xx(device)
  /\ GetPrimaryStorageType(definition_) = "TEXTURE_ARRAY"
  /\ definition_.precision = "F16"
Adreno4xxOptimization ==
  /\ stride_.x = 1 /\ stride_.y = 1 /\ padding_.x = 0 /\ padding_.y = 0
  /\ IsAdreno4xx(device)
  /\ GetPrimaryStorageType(definition_) = "TEXTURE_ARRAY"
  /\ definition_.precision = "F16"
CompilerOptions ==
  IF UseFP16SIMD(device, definition_.precision, Is1x1)
  THEN <<"ADRENO_FULL_SIMD_LINE">> ELSE <<>>

----------------------------------------------------------------------------
(* CreateConvTexture: the collaborator calls it makes, given their outcomes.*)
CreateConvTextureCallsNoCheck(up, bi) ==
  <<Call("UploadWeights", up), Call("CreateLinearStorage", bi)>>
CreateConvTextureCalls(up, bi) ==
  RunUntilError(<<Call("UploadWeights", up), Call("CreateLinearStorage", bi)>>)

Succeeded(trace, name) == \E i \in 1..Len(trace) : trace[i] = Call(name, OK)

(* *result = ConvTexture(definition, attr), then the two uploads. *)
CreateConvTexture(dev, definition, attr, bs, up, bi) ==
  LET trace == CreateConvTextureCalls(up, bi) IN
  /\ state = "Start"
  /\ device' = dev
  /\ definition_' = definition
  /\ linked_operations_' = 0
  /\ kernel_size_' = int2(attr.weights_shape.w, attr.weights_shape.h)
  /\ stride_' = int2(attr.strides.w, attr.strides.h)
  /\ padding_' = int2(-attr.padding_prepended.w, -attr.padding_prepended.h)
  /\ dilation_' = int2(attr.dilations.w, attr.dilations.h)
  /\ block_size_' = bs
  /\ work_group_size_' = int3(DefaultWorkGroupX, DefaultWorkGroupY, DefaultWorkGroupZ)
  /\ weights_' = IF Succeeded(trace, "UploadWeights") THEN 1 ELSE 0
  /\ biases_' = IF Succeeded(trace, "CreateLinearStorage") THEN 1 ELSE 0
  /\ kernel_' = NoKernel
  /\ src_' = NoTensor /\ dst_' = NoTensor
  /\ state' = IF StatusOf(trace) = OK THEN "Created" ELSE "Invalid"
  /\ ret' = [op |-> "CreateConvTexture", status |-> StatusOf(trace), trace |-> trace, repeat |-> 0]
  /\ UNCHANGED <<cc, queue, run>>

(* GPUOperation::AddOperation: the graph links an elementwise operation     *)
(* before the kernel is compiled.                                           *)
AddOperation ==
  /\ state = "Created"
  /\ linked_operations_ < MaxLinked
  /\ linked_operations_' = linked_operations_ + 1
  /\ ret' = [op |-> "AddOperation", status |-> OK, trace |-> <<>>, repeat |-> 0]
  /\ UNCHANGED <<state, device, definition_, kernel_size_, stride_, padding_, dilation_,
                 block_size_, work_group_size_, weights_, biases_, kernel_, cc,
                 src_, dst_, queue, run>>

CompileLocals ==
  [called |-> TRUE, is1x1 |-> Is1x1,
   adreno4xx_optimization |-> Adreno4xxOptimization,
   code |-> GenerateConvCode(definition_, block_size_, Is1x1, Adreno4xxOptimization,
                             stride_, device, linked_operations_),
   options |-> CompilerOptions]

(* ConvTexture::Compile; st is the status of GetOrCreateCLKernel. *)
Compile(st) ==
  LET code == CompileLocals.code
      trace == <<Call("GetOrCreateCLKernel", st)>> IN
  /\ state = "Created"
  /\ cc' = CompileLocals
  /\ kernel_' = IF st = OK
                THEN [compiled |-> TRUE, code |-> code, options |-> CompilerOptions,
                      args |-> <<>>, binding_counter |-> 0]
                ELSE kernel_
  /\ state' = IF st = OK THEN "Compiled" ELSE "Created"
  /\ ret' = [op |-> "Compile", status |-> StatusOf(trace), trace |-> trace, repeat |-> 0]
  /\ UNCHANGED <<config, work_group_size_, weights_, biases_, src_, dst_, queue, run>>

----------------------------------------------------------------------------
(* GPUOperation::SetSrc / SetDst: the executor binds the tensors of this    *)
(* inference step; their dimensions are known only now (dynamic batch).     *)
Tensor(w, h, c, b, p) ==
  [Width |-> w, Height |-> h, Channels |-> c, Depth |-> (c + 3) \div 4, Batch |-> b, ptr |-> p]

SetTensors(s, d) ==
  /\ state \in {"Created", "Compiled"}
  /\ s.Batch = d.Batch
  /\ definition_.batch_support \/ s.Batch = 1
  /\ src_' = s /\ dst_' = d
  /\ ret' = [op |-> "SetTensors", status |-> OK, trace |-> <<>>, repeat |-> 0]
  /\ UNCHANGED <<state, config, work_group_size_, weights_, biases_, kernel_, cc, queue, run>>

----------------------------------------------------------------------------
(* CLKernel: argument slots and the binding counter. *)
Arg(name, type, val) == [name |-> name, type |-> type, val |-> val]

KeepBindingCounter(k) == k
ResetBindingCounter(k) == [k EXCEPT !.binding_counter = 0]

Unset == Arg("", "", <<>>)
Max(a, b) == IF a > b THEN a ELSE b

(* SetMemoryAuto / SetBytesAuto, called `made` times in a row with the      *)
(* values of `args`, of which the first `bound` calls succeed: each call    *)
(* sets the slot at the counter (left as it is when the call fails) and     *)
(* advances the counter.                                                    *)
SetAuto(k, args, bound, made) ==
  LET c0 == k.binding_counter
      old == k.args IN
  [k EXCEPT !.args = [i \in 1..Max(Len(old), c0 + bound) |->
                        IF i > c0 /\ i <= c0 + bound THEN args[i - c0]
                        ELSE IF i <= Len(old) THEN old[i] ELSE Unset],
            !.binding_counter = c0 + made]

WeightsPtr(i) == 100 + i
BiasesPtr == 105
LinkedPtr(i) == 110 + i
LinkedArgs(n) == [i \in 1..n |-> Arg(LinkedNames[i], "mem", <<LinkedPtr(i)>>)]

(* The arguments ConvTexture::BindArguments binds, in the order of its calls.*)
BoundArgsStrideFirst ==
  <<Arg("src_data", "mem", <<src_.ptr>>),
    Arg("filters0", "mem", <<WeightsPtr(0)>>), Arg("filters1", "mem", <<WeightsPtr(1)>>),
    Arg("filters2", "mem", <<WeightsPtr(2)>>), Arg("filters3", "mem", <<WeightsPtr(3)>>),
    Arg("biases", "mem", <<BiasesPtr>>)>>
  \o LinkedArgs(linked_operations_)
  \o <<Arg("dst_data", "mem", <<dst_.ptr>>),
       Arg("src_size", "int4",
           <<src_.Width * src_.Batch, src_.Height, src_.Channels, src_.Depth>>),
       Arg("dst_size", "int4",
           <<dst_.Width * dst_.Batch, dst_.Height, dst_.Channels, dst_.Depth>>)>>
  \o (IF ~(kernel_size_.x = 1 /\ kernel_size_.y = 1)
      THEN <<Arg("kernel_size", "int2", <<kernel_size_.x, kernel_size_.y>>),
             Arg("dilation", "int2", <<dilation_.x * src_.Batch, dilation_.y>>)>>
      ELSE <<>>)
  \o <<Arg("stride", "int2", <<stride_.x, stride_.y>>)>>
  \o (IF NeedStrideCorrection(definition_, stride_)
      THEN <<Arg("BATCH_SIZE", "int", <<dst_.Batch>>)>> ELSE <<>>)
  \o <<Arg("padding", "int2", <<padding_.x * src_.Batch, padding_.y>>)>>
BoundArgs ==
  <<Arg("src_data", "mem", <<src_.ptr>>),
    Arg("filters0", "mem", <<WeightsPtr(0)>>), Arg("filters1", "mem", <<WeightsPtr(1)>>),
    Arg("filters2", "mem", <<WeightsPtr(2)>>), Arg("filters3", "mem", <<WeightsPtr(3)>>),
    Arg("biases", "mem", <<BiasesPtr>>)>>
  \o LinkedArgs(linked_operations_)
  \o <<Arg("dst_data", "mem", <<dst_.ptr>>),
       Arg("src_size", "int4",
           <<src_.Width * src_.Batch, src_.Height, src_.Channels, src_.Depth>>),
       Arg("dst_size", "int4",
           <<dst_.Width * dst_.Batch, dst_.Height, dst_.Channels, dst_.Depth>>)>>
  \o (IF ~(kernel_size_.x = 1 /\ kernel_size_.y = 1)
      THEN <<Arg("kernel_size", "int2", <<kernel_size_.x, kernel_size_.y>>),
             Arg("dilation", "int2", <<dilation_.x * src_.Batch, dilation_.y>>)>>
      ELSE <<>>)
  \o (IF NeedStrideCorrection(definition_, stride_)
      THEN <<Arg("BATCH_SIZE", "int", <<dst_.Batch>>)>> ELSE <<>>)
  \o <<Arg("stride", "int2", <<stride_.x, stride_.y>>),
       Arg("padding", "int2", <<padding_.x * src_.Batch, padding_.y>>)>>

(* ConvTexture::BindArguments: the kernel afterwards, the status returned   *)
(* and the call that failed. The fail-th Set*Auto call (0: none) returns an *)
(* error, which RETURN_IF_ERROR hands to the caller at once.                *)
BindArgumentsResult(fail) ==
  LET args == BoundArgs
      bound == IF fail = 0 THEN Len(args) ELSE fail - 1
      made == IF fail = 0 THEN Len(args) ELSE fail IN
  [kernel |-> SetAuto(ResetBindingCounter(kernel_), args, bound, made),
   status |-> IF fail = 0 THEN OK ELSE "BindError",
   trace |-> IF fail = 0 THEN <<>> ELSE <<Call(args[fail].name, "BindError")>>]

(* The calls of BindArguments at which a failure is injected: the first    *)
(* and the last; 0 is the call without a failure.                           *)
FailPoints == {0, 1, Len(BoundArgs)}

CanBind == state = "Compiled" /\ src_ # NoTensor /\ dst_ # NoTensor

BindArguments(fail) ==
  LET b == BindArgumentsResult(fail) IN
  /\ CanBind
  /\ kernel_' = b.kernel
  /\ ret' = [op |-> "BindArguments", status |-> b.status, trace |-> b.trace,
             repeat |-> IF b.status # OK THEN 0
                        ELSE IF ret.repeat < 2 THEN ret.repeat + 1 ELSE ret.repeat]
  /\ UNCHANGED <<state, config, work_group_size_, weights_, biases_, cc, src_, dst_,
                 queue, run>>

----------------------------------------------------------------------------
(* IntegralDivideRoundUp(n, divisor): ceiling division. *)
IntegralDivideRoundUp(n, divisor) ==
  IF n % divisor = 0 THEN n \div divisor ELSE n \div divisor + 1

(* ConvTexture::GetGridSize *)
GetGridSizeChannels ==
  int3(IntegralDivideRoundUp(dst_.Width * dst_.Batch, block_size_.x),
       IntegralDivideRoundUp(dst_.Height, block_size_.y),
       IntegralDivideRoundUp(dst_.Channels, block_size_.z))
GetGridSize ==
  int3(IntegralDivideRoundUp(dst_.Width * dst_.Batch, block_size_.x),
       IntegralDivideRoundUp(dst_.Height, block_size_.y),
       IntegralDivideRoundUp(dst_.Depth, block_size_.z))

(* GetBestWorkGroupConv(params, kernel, grid, &work_group_size_): the work  *)
(* group the search writes through its last parameter: the one found, or    *)
(* nothing when it fails.                                                   *)
GetBestWorkGroupConv(st, found, current) == IF st = OK THEN found ELSE current

(* ConvTexture::Tune: status returned, collaborator calls made, work group. *)
TuneResultSearchAlways(b, st, found) ==
  [status |-> IF b.status # OK THEN b.status ELSE st,
   trace |-> <<Call("BindArguments", b.status), Call("GetBestWorkGroupConv", st)>>,
   work_group_size |-> GetBestWorkGroupConv(st, found, work_group_size_)]
TuneResult(b, st, found) ==
  IF b.status # OK
  THEN [status |-> b.status,
        trace |-> <<Call("BindArguments", b.status)>>,
        work_group_size |-> work_group_size_]
  ELSE [status |-> st,
        trace |-> <<Call("BindArguments", b.status), Call("GetBestWorkGroupConv", st)>>,
        work_group_size |-> GetBestWorkGroupConv(st, found, work_group_size_)]

Tune(fail, st, found) ==
  LET b == BindArgumentsResult(fail)
      t == TuneResult(b, st, found) IN
  /\ CanBind
  /\ kernel_' = b.kernel
  /\ work_group_size_' = t.work_group_size
  /\ ret' = [op |-> "Tune", status |-> t.status, trace |-> t.trace, repeat |-> 0]
  /\ UNCHANGED <<state, config, weights_, biases_, cc, src_, dst_, queue, run>>

(* ConvTexture::AddToQueue: status returned, collaborator calls made, and   *)
(* the dispatches DispatchImplicit receives.                                *)
Submission(k, st) ==
  [args |-> k.args, grid |-> GetGridSize, work_group_size |-> work_group_size_,
   status |-> st]
AddToQueueResultDispatchAlways(b, st) ==
  [status |-> IF b.status # OK THEN b.status ELSE st,
   trace |-> <<Call("BindArguments", b.status), Call("DispatchImplicit", st)>>,
   submitted |-> <<Submission(b.kernel, st)>>]
AddToQueueResult(b, st) ==
  IF b.status # OK
  THEN [status |-> b.status,
        trace |-> <<Call("BindArguments", b.status)>>,
        submitted |-> <<>>]
  ELSE [status |-> st,
        trace |-> <<Call("BindArguments", b.status), Call("DispatchImplicit", st)>>,
        submitted |-> <<Submission(b.kernel, st)>>]

(* The device starts to execute a dispatch it accepted: the kernel code,    *)
(* the argument values and the grid are those of the submission.            *)
StartRun(k, sub) ==
  [active |-> TRUE, code |-> k.code, args |-> sub.args, grid |-> sub.grid,
   next |-> 0, stores |-> {}, last |-> <<>>]

AddToQueue(fail, st) ==
  LET b == BindArgumentsResult(fail)
      a == AddToQueueResult(b, st) IN
  /\ CanBind
  /\ queue.submitted < MaxQueue
  /\ kernel_' = b.kernel
  /\ queue' = IF a.submitted = <<>> THEN queue
              ELSE [submitted |-> queue.submitted + Len(a.submitted),
                    last |-> a.submitted[Len(a.submitted)]]
  /\ run' = IF a.status = OK THEN StartRun(b.kernel, a.submitted[1]) ELSE run
  /\ ret' = [op |-> "AddToQueue", status |-> a.status, trace |-> a.trace, repeat |-> 0]
  /\ UNCHANGED <<state, config, work_group_size_, weights_, biases_, cc, src_, dst_>>

----------------------------------------------------------------------------
(* The controller from before its creation, with the inputs of the runtime  *)
(* calls drawn from small sets.                                             *)
Init ==
  /\ state = "Start"
  /\ device = "Mali"
  /\ definition_ = [precision |-> "F32", storage_type |-> "BUFFER", batch_support |-> FALSE]
  /\ linked_operations_ = 0
  /\ kernel_size_ = int2(0, 0) /\ stride_ = int2(0, 0)
  /\ padding_ = int2(0, 0) /\ dilation_ = int2(0, 0)
  /\ block_size_ = int3(0, 0, 0)
  /\ work_group_size_ = int3(0, 0, 0)
  /\ weights_ = 0 /\ biases_ = 0
  /\ kernel_ = NoKernel
  /\ cc = NoCompile
  /\ src_ = NoTensor /\ dst_ = NoTensor
  /\ queue = NoQueue
  /\ ret = NoCall
  /\ run = NoRun

Statuses(err) == {OK, err}

RunDefs == OperationDefs({"F16"}, {"TEXTURE_ARRAY"}, BOOLEAN)
RunAttrs ==
  Attributes({[w |-> 1, h |-> 1], [w |-> 3, h |-> 3]},
             {[w |-> 1, h |-> 1], [w |-> 2, h |-> 1]},
             {[w |-> 1, h |-> 0]},
             {[w |-> 2, h |-> 1]})
RunBlocks == {int3(2, 2, 1)}
RunTensors == {<<Tensor(4, 2, 5, b, 1), Tensor(2, 2, 8, b, 2)>> : b \in {1, MaxBatch}}
WorkGroups == {int3(8, 4, 1)}

Next ==
  \/ /\ state = "Start"
     /\ \E d \in RunDefs, a \in RunAttrs, bs \in RunBlocks,
           up \in Statuses("UploadError"), bi \in Statuses("BiasError") :
          CreateConvTexture("Adreno4xx", d, a, bs, up, bi)
  \/ AddOperation
  \/ \E st \in Statuses("CompileError") : Compile(st)
  \/ \E t \in RunTensors : SetTensors(t[1], t[2])
  \/ /\ CanBind
     /\ \E fail \in FailPoints : BindArguments(fail)
  \/ /\ CanBind
     /\ \E fail \in FailPoints, st \in Statuses("TuneError"), wg \in WorkGroups :
          Tune(fail, st, wg)
  \/ /\ CanBind
     /\ \E fail \in FailPoints, st \in Statuses("DispatchError") :
          AddToQueue(fail, st)

Spec == Init /\ [][Next]_vars

----------------------------------------------------------------------------
(* The generated kernel, executed by one invocation (work item). *)

(* Integer division and remainder of OpenCL C: truncation towards zero. *)
Abs(a) == IF a < 0 THEN -a ELSE a
Sign(a) == IF a < 0 THEN -1 ELSE 1
CDiv(a, b) == Sign(a) * Sign(b) * (Abs(a) \div Abs(b))
CMod(a, b) == a - b * CDiv(a, b)

(* The value the kernel sees in a parameter: the argument bound at the      *)
(* parameter's position.                                                    *)
KernelArg(code, args, name) ==
  args[CHOOSE i \in 1..Len(code.params) : code.params[i].name = name].val

(* "int p = (X + x) / BATCH_SIZE; int b = (X + x) % BATCH_SIZE;             *)
(*  int xc = p * BATCH_SIZE * stride.x + b + padding.x;"                    *)
XcBatchFoldedNoStride(X, x, BATCH_SIZE, stride_x, padding_x) ==
  LET p == CDiv(X + x, BATCH_SIZE)
      b == CMod(X + x, BATCH_SIZE) IN
  p * BATCH_SIZE + b + padding_x
XcBatchFolded(X, x, BATCH_SIZE, stride_x, padding_x) ==
  LET p == CDiv(X + x, BATCH_SIZE)
      b == CMod(X + x, BATCH_SIZE) IN
  p * BATCH_SIZE * stride_x + b + padding_x

(* "int xc = (X + x) * stride.x + padding.x;" *)
XcAffine(X, x, stride_x, padding_x) == (X + x) * stride_x + padding_x

(* The source coordinates xc0.., yc0.. of one invocation. *)
SourceXc(code, args, X) ==
  LET stride == KernelArg(code, args, "stride")
      padding == KernelArg(code, args, "padding") IN
  [i \in 1..code.block_size.x |->
     IF code.stride_correction
     THEN XcBatchFolded(X, i - 1, KernelArg(code, args, "BATCH_SIZE")[1],
                        stride[1], padding[1])
     ELSE XcAffine(X, i - 1, stride[1], padding[1])]
SourceYc(code, args, Y) ==
  LET stride == KernelArg(code, args, "stride")
      padding == KernelArg(code, args, "padding") IN
  [i \in 1..code.block_size.y |-> (Y + (i - 1)) * stride[2] + padding[2]]

(* The window loops "for (int y = 0; y < kernel_size.y; ++y)" and           *)
(* "for (int x = 0; x < kernel_size.x; ++x)", emitted unless the window is  *)
(* 1x1: the taps <<x, y>> a kernel visits.                                  *)
KernelTaps(code, args) ==
  IF code.is1x1 THEN {<<0, 0>>}
  ELSE LET kernel_size == KernelArg(code, args, "kernel_size") IN
       (0..(kernel_size[1] - 1)) \X (0..(kernel_size[2] - 1))

(* s_x, s_y: the source coordinate of tile column x (row y) at a tap:       *)
(* xc (yc) for a 1x1 window, else "cx = x * dilation.x + xc" and            *)
(* "cy = y * dilation.y + yc".                                              *)
TapCx(code, args, xcs, x, tap) ==
  IF code.is1x1 THEN xcs[x + 1]
  ELSE tap[1] * KernelArg(code, args, "dilation")[1] + xcs[x + 1]
TapCy(code, args, ycs, y, tap) ==
  IF code.is1x1 THEN ycs[y + 1]
  ELSE tap[2] * KernelArg(code, args, "dilation")[2] + ycs[y + 1]

(* select(a, b, c) of OpenCL C on scalars: b when c is true, else a. *)
Select(a, b, c) == IF c THEN b ELSE a

(* "bool in_x = cx >= 0 && cx < src_size.x;" and the same for y. *)
InX(src_size, cx) == cx >= 0 /\ cx < src_size[1]
InY(src_size, cy) == cy >= 0 /\ cy < src_size[2]

(* "int addr_ = select(-1, cy * src_size.x + cx, (in_x && in_y));" *)
AddrInit(src_size, cx, cy) ==
  Select(-1, cy * src_size[1] + cx, InX(src_size, cx) /\ InY(src_size, cy))

(* "int dz_ = select(0, src_size.x * src_size.y, (in_x && in_y));" *)
AddrStepUnconditional(src_size, cx, cy) == src_size[1] * src_size[2]
AddrStep(src_size, cx, cy) ==
  Select(0, src_size[1] * src_size[2], InX(src_size, cx) /\ InY(src_size, cy))

(* addr_ at the top of iteration s of the loop over src_size.w: the initial *)
(* value after s executions of "addr_ += dz_".                              *)
RECURSIVE AddrAt(_, _, _)
AddrAt(addr, dz, s) == IF s = 0 THEN addr ELSE AddrAt(addr, dz, s - 1) + dz

(* The loads "FLT4 src<id> = ..." of one invocation: for each tap and each  *)
(* iteration s, source register id = y * block_size.x + x is read at        *)
(* addr_<id> (IMAGE_BUFFER, Read) or at (s_x[x], s_y[y], s) (Read3D).       *)
KernelLoads(code, args, xcs, ycs) ==
  LET bs == code.block_size
      src_size == KernelArg(code, args, "src_size")
      image_buffer == code.is_image_buffer IN
  UNION {
    LET cxs == [x \in 0..(bs.x - 1) |-> TapCx(code, args, xcs, x, tap)]
        cys == [y \in 0..(bs.y - 1) |-> TapCy(code, args, ycs, y, tap)] IN
    {[id |-> e[2] * bs.x + e[1], x |-> e[1], y |-> e[2], tap |-> tap, s |-> e[3],
      cx |-> cxs[e[1]], cy |-> cys[e[2]],
      read |-> IF image_buffer THEN "Read" ELSE "Read3D",
      at |-> IF image_buffer
             THEN <<AddrAt(AddrInit(src_size, cxs[e[1]], cys[e[2]]),
                           AddrStep(src_size, cxs[e[1]], cys[e[2]]), e[3])>>
             ELSE <<cxs[e[1]], cys[e[2]], e[3]>>] :
       e \in (0..(bs.x - 1)) \X (0..(bs.y - 1)) \X (0..(src_size[4] - 1))} :
    tap \in KernelTaps(code, args)}

(* f_y, the row of the filter images read at a tap and an iteration s: s    *)
(* for a 1x1 window, else filter_offset, which starts at 0 and is           *)
(* incremented at the end of every iteration of the innermost loop.         *)
FilterRow(code, args, tap, s) ==
  IF code.is1x1 THEN s
  ELSE (tap[2] * KernelArg(code, args, "kernel_size")[1] + tap[1])
         * KernelArg(code, args, "src_size")[4] + s

(* The iterations of the loop nest (window loops, then the loop over        *)
(* src_size.w), each with the filter row f_y it reads.                      *)
KernelIterations(code, args) ==
  {[tap |-> it[1], s |-> it[2], f_y |-> FilterRow(code, args, it[1], it[2])] :
     it \in KernelTaps(code, args) \X (0..(KernelArg(code, args, "src_size")[4] - 1))}

(* "FLT4 f<4z+j> = READ_IMAGE(filters<j>, smp_none, (int2)(Z + z, f_y));":  *)
(* the filter registers loaded in each iteration, with the image and the    *)
(* column read; the row is the iteration's f_y.                             *)
FilterLoads(code, Z) ==
  [k \in 0..(4 * code.block_size.z - 1) |-> [image |-> k % 4, x |-> Z + (k \div 4)]]

(* "#define CONV<z>(R, S)": the filter registers the macro of slice z uses. *)
ConvFilters(z) == <<z * 4 + 0, z * 4 + 1, z * 4 + 2, z * 4 + 3>>

(* "CONV<z>(r<i + z * block_size.x * block_size.y>, src<i>)": the           *)
(* accumulator that receives source register i in slice z.                  *)
AccumulatorOfSliceMinor(bs, z, i) == i * bs.z + z
AccumulatorOf(bs, z, i) == i + z * bs.x * bs.y

(* The multiply-accumulate statements of the loop body, executed in every   *)
(* iteration: accumulator r += src * f for every slice z and register i.    *)
KernelAccumulates(code, Z) ==
  LET bs == code.block_size
      f == FilterLoads(code, Z) IN
  {[r |-> AccumulatorOf(bs, e[1], e[2]), src |-> e[2], conv |-> e[1],
    f |-> ConvFilters(e[1]),
    fx |-> [j \in 1..4 |-> f[ConvFilters(e[1])[j]].x]] :
     e \in (0..(bs.z - 1)) \X (0..(bs.x * bs.y - 1))}

(* The epilogue: the stores of one invocation that passed the early exit.   *)
(* Slice z is stored while Z (incremented after each slice) is below        *)
(* dst_size.w, element (x, y) when xc < dst_size.x and yc < dst_size.y.     *)
KernelStoresNoCheck(code, args, gid, X, Y, Z, xcs, ycs) ==
  LET bs == code.block_size
      dst_x == IF code.dst_x = "xc0" THEN xcs[1] ELSE X
      dst_y == IF code.dst_y = "yc0" THEN ycs[1] ELSE Y IN
  {[x |-> dst_x + x, y |-> dst_y + y, z |-> Z + z,
    r |-> (z * bs.y + y) * bs.x + x, gid |-> gid] :
     x \in 0..(bs.x - 1), y \in 0..(bs.y - 1), z \in 0..(bs.z - 1)}
KernelStores(code, args, gid, X, Y, Z, xcs, ycs) ==
  LET bs == code.block_size
      dst_size == KernelArg(code, args, "dst_size")
      dst_x == IF code.dst_x = "xc0" THEN xcs[1] ELSE X
      dst_y == IF code.dst_y = "yc0" THEN ycs[1] ELSE Y
      tile == {t \in (0..(bs.x - 1)) \X (0..(bs.y - 1)) \X (0..(bs.z - 1)) :
                 /\ Z + t[3] < dst_size[4]
                 /\ dst_x + t[1] < dst_size[1]
                 /\ dst_y + t[2] < dst_size[2]} IN
  {[x |-> dst_x + t[1], y |-> dst_y + t[2], z |-> Z + t[3],
    r |-> (t[3] * bs.y + t[2]) * bs.x + t[1], gid |-> gid] : t \in tile}

(* main_function for the invocation with global id gid. *)
KernelInvocation(code, args, gid) ==
  LET bs == code.block_size
      dst_size == KernelArg(code, args, "dst_size")
      X == gid.x * bs.x
      Y == gid.y * bs.y
      Z == gid.z * bs.z IN
  IF X >= dst_size[1] \/ Y >= dst_size[2] \/ Z >= dst_size[4]
  THEN [exited |-> TRUE, gid |-> gid, X |-> X, Y |-> Y, Z |-> Z,
        xc |-> <<>>, yc |-> <<>>, loads |-> {}, iterations |-> {}, accums |-> {}, stores |-> {}]
  ELSE LET xcs == SourceXc(code, args, X)
           ycs == SourceYc(code, args, Y) IN
       [exited |-> FALSE, gid |-> gid, X |-> X, Y |-> Y, Z |-> Z,
        xc |-> xcs, yc |-> ycs,
        loads |-> KernelLoads(code, args, xcs, ycs),
        iterations |-> KernelIterations(code, args),
        accums |-> KernelAccumulates(code, Z),
        stores |-> KernelStores(code, args, gid, X, Y, Z, xcs, ycs)]

(* The device runs the invocations of the grid; each one is independent of  *)
(* the others, so they are taken in the order of their linear index.        *)
GridCount(grid) == grid.x * grid.y * grid.z
GlobalId(grid, i) ==
  int3(i % grid.x, (i \div grid.x) % grid.y, i \div (grid.x * grid.y))

Invoke ==
  /\ run.active
  /\ run.next < GridCount(run.grid)
  /\ LET inv == KernelInvocation(run.code, run.args, GlobalId(run.grid, run.next)) IN
       run' = [run EXCEPT !.next = @ + 1,
                          !.stores = @ \cup inv.stores,
                          !.last = inv]
  /\ UNCHANGED <<state, config, work_group_size_, weights_, biases_, kernel_, cc,
                 src_, dst_, queue, ret>>

(* The kernel in execution: the controller is created, compiled and has its *)
(* tensors set; one dispatch is submitted and the device executes it.       *)
MaxWidth == 3
MaxHeight == 2
MaxDepth == 2

KernelBlocks == {int3(2, 2, 1), int3(3, 1, 2)}
KernelStorages == {"TEXTURE_ARRAY", "IMAGE_BUFFER"}
KernelAttrs ==
  Attributes({[w |-> 1, h |-> 1], [w |-> 3, h |-> 3]},
             {[w |-> 1, h |-> 1], [w |-> 2, h |-> 1], [w |-> 3, h |-> 2]},
             {[w |-> 0, h |-> 0], [w |-> 1, h |-> 1]},
             {[w |-> 1, h |-> 1]})
KernelDsts ==
  {Tensor(w, h, 4 * d - 1, b, 2) :
     w \in 1..MaxWidth, h \in {1, MaxHeight}, d \in {1, MaxDepth}, b \in {1, MaxBatch}}
  \cup {Tensor(17, 9, 20, 1, 2)}

InitKernel ==
  /\ state = "Compiled"
  /\ device = "Adreno4xx"
  /\ definition_ \in OperationDefs({"F16"}, KernelStorages, BOOLEAN)
  /\ linked_operations_ = 0
  /\ \E a \in KernelAttrs :
       /\ kernel_size_ = int2(a.weights_shape.w, a.weights_shape.h)
       /\ stride_ = int2(a.strides.w, a.strides.h)
       /\ padding_ = int2(-a.padding_prepended.w, -a.padding_prepended.h)
       /\ dilation_ = int2(a.dilations.w, a.dilations.h)
  /\ \E d \in KernelDsts :
       /\ definition_.batch_support \/ d.Batch = 1
       /\ dst_ = d
       /\ src_ = Tensor(d.Width * stride_.x, d.Height * stride_.y, 4 * MaxDepth, d.Batch, 1)
       /\ block_size_ \in IF d.Width = 17 THEN {int3(4, 4, 2)} ELSE KernelBlocks
  /\ work_group_size_ = int3(DefaultWorkGroupX, DefaultWorkGroupY, DefaultWorkGroupZ)
  /\ weights_ = 1 /\ biases_ = 1
  /\ cc = CompileLocals
  /\ kernel_ = [compiled |-> TRUE, code |-> cc.code, options |-> cc.options,
                args |-> <<>>, binding_counter |-> 0]
  /\ queue = NoQueue
  /\ ret = [op |-> "SetTensors", status |-> OK, trace |-> <<>>, repeat |-> 0]
  /\ run = NoRun

NextKernel ==
  \/ /\ CanBind
     /\ AddToQueue(0, OK)
  \/ Invoke

SpecKernel == InitKernel /\ [][NextKernel]_vars

(* Creation and compilation alone, over the whole configuration space.      *)
AllDefs == OperationDefs(Precisions, StorageTypes, BOOLEAN)
AllAttrs ==
  Attributes({[w |-> 1, h |-> 1], [w |-> 1, h |-> 3], [w |-> 3, h |-> 1]},
             {[w |-> 1, h |-> 1], [w |-> 2, h |-> 1], [w |-> 1, h |-> 2]},
             {[w |-> 0, h |-> 0], [w |-> 1, h |-> 0], [w |-> 0, h |-> 1]},
             {[w |-> 1, h |-> 1]})

NextCompile ==
  \/ /\ state = "Start"
     /\ \E dev \in Devices, d \in AllDefs, a \in AllAttrs, bs \in RunBlocks,
           up \in Statuses("UploadError"), bi \in Statuses("BiasError") :
          CreateConvTexture(dev, d, a, bs, up, bi)
  \/ AddOperation
  \/ \E st \in Statuses("CompileError") : Compile(st)

SpecCompile == Init /\ [][NextCompile]_vars

----------------------------------------------------------------------------
(* Properties. *)

Names(s) == [i \in 1..Len(s) |-> s[i].name]
Types(s) == [i \in 1..Len(s) |-> s[i].type]

(* The last call bound every argument: BindArguments itself returned OK, or *)
(* the BindArguments call inside Tune or AddToQueue did.                    *)
BoundOK ==
  \/ ret.op = "BindArguments" /\ ret.status = OK
  \/ ret.op \in {"Tune", "AddToQueue"} /\ ret.trace[1] = Call("BindArguments", OK)

(* C1: after a successful BindArguments the bound arguments equal, in count *)
(* and position (name and type), the parameter list of the compiled kernel: *)
(* source, filters0..3, biases, linked arguments, destination, src_size,    *)
(* dst_size, kernel_size and dilation iff the window is not 1x1, BATCH_SIZE *)
(* iff NeedStrideCorrection holds, stride, padding.                         *)
C1_BoundArgsMatchParams ==
  BoundOK =>
    /\ kernel_.binding_counter = Len(kernel_.code.params)
    /\ Len(kernel_.args) = Len(kernel_.code.params)
    /\ Names(kernel_.args) = Names(kernel_.code.params)
    /\ Types(kernel_.args) = Types(kernel_.code.params)
    /\ Names(kernel_.args) =
         <<"src_data", "filters0", "filters1", "filters2", "filters3", "biases">>
         \o [i \in 1..linked_operations_ |-> LinkedNames[i]]
         \o <<"dst_data", "src_size", "dst_size">>
         \o (IF kernel_size_ = int2(1, 1) THEN <<>> ELSE <<"kernel_size", "dilation">>)
         \o (IF definition_.batch_support /\ stride_.x # 1 THEN <<"BATCH_SIZE">> ELSE <<>>)
         \o <<"stride", "padding">>

C1_Witness ==
  /\ ret.op = "BindArguments" /\ ret.status = OK
  /\ kernel_size_ # int2(1, 1)
  /\ definition_.batch_support /\ stride_.x # 1
  /\ linked_operations_ > 0

(* The destination elements: width*batch by height by depth in channel      *)
(* groups.                                                                  *)
DstElements ==
  (0..(dst_.Width * dst_.Batch - 1)) \X (0..(dst_.Height - 1)) \X (0..(dst_.Depth - 1))
StoredElements == {<<s.x, s.y, s.z>> : s \in run.stores}
RunDone == run.active /\ run.next = GridCount(run.grid)

(* C2: over the grid of GetGridSize no invocation stores outside the        *)
(* destination, no destination element is stored by two invocations or two  *)
(* tile elements, and when every invocation has run each destination        *)
(* element has been stored exactly once.                                    *)
C2_EveryElementStoredOnce ==
  run.active =>
    /\ StoredElements \subseteq DstElements
    /\ Cardinality(StoredElements) = Cardinality(run.stores)
    /\ RunDone => StoredElements = DstElements

C2_Witness ==
  /\ RunDone
  /\ (dst_.Width * dst_.Batch) % block_size_.x # 0
  /\ dst_.Depth % block_size_.z # 0
  /\ Cardinality(run.stores) = Cardinality(DstElements)
  /\ Cardinality(run.last.stores) < block_size_.x * block_size_.y * block_size_.z

(* C3: the grid of GetGridSize is, per axis, the least number of blocks     *)
(* that covers the destination extent (width*batch, height, depth in        *)
(* channel groups): grid*block >= extent and grid*block - extent < block;   *)
(* for destination (17,9,5) and block (4,4,2) it is (5,3,3).                *)
C3_GridIsCeiling ==
  run.active =>
    LET g == run.grid
        W == dst_.Width * dst_.Batch
        H == dst_.Height
        D == dst_.Depth IN
    /\ g = GetGridSize
    /\ g.x * block_size_.x >= W /\ g.x * block_size_.x - W < block_size_.x
    /\ g.y * block_size_.y >= H /\ g.y * block_size_.y - H < block_size_.y
    /\ g.z * block_size_.z >= D /\ g.z * block_size_.z - D < block_size_.z
    /\ (<<W, H, D>> = <<17, 9, 5>> /\ block_size_ = int3(4, 4, 2)) => g = int3(5, 3, 3)

C3_Witness ==
  /\ run.active /\ run.grid = int3(5, 3, 3)
  /\ dst_.Width * dst_.Batch = 17 /\ dst_.Height = 9 /\ dst_.Depth = 5
  /\ block_size_ = int3(4, 4, 2)

(* C4: in a kernel generated with the batch-folded addressing and run with  *)
(* BATCH_SIZE = 1, every source x-coordinate xc of the tile equals          *)
(* (X + x) * stride.x + padding.x.                                          *)
C4_BatchOneIsAffine ==
  (/\ run.active /\ run.code.stride_correction
   /\ KernelArg(run.code, run.args, "BATCH_SIZE") = <<1>>
   /\ run.next > 0 /\ ~run.last.exited) =>
    \A i \in 1..run.code.block_size.x :
      run.last.xc[i] =
        (run.last.X + (i - 1)) * KernelArg(run.code, run.args, "stride")[1]
        + KernelArg(run.code, run.args, "padding")[1]

C4_Witness ==
  /\ run.active /\ run.code.stride_correction
  /\ KernelArg(run.code, run.args, "BATCH_SIZE") = <<1>>
  /\ run.next > 0 /\ ~run.last.exited
  /\ run.last.X > 0
  /\ KernelArg(run.code, run.args, "stride")[1] = 2
  /\ KernelArg(run.code, run.args, "padding")[1] # 0

(* C5: the adreno4xx_optimization that Compile computes is true exactly when *)
(* stride is (1,1), padding is (0,0), precision is F16, the primary storage *)
(* type is TEXTURE_ARRAY and the device is an Adreno 4xx; it is false as    *)
(* soon as one of the five fails.                                           *)
C5_Adreno4xxGating ==
  cc.called =>
    /\ ( /\ stride_ = int2(1, 1) /\ padding_ = int2(0, 0)
         /\ definition_.precision = "F16"
         /\ definition_.storage_type = "TEXTURE_ARRAY"
         /\ device = "Adreno4xx" ) => cc.adreno4xx_optimization
    /\ stride_ # int2(1, 1) => ~cc.adreno4xx_optimization
    /\ padding_ # int2(0, 0) => ~cc.adreno4xx_optimization
    /\ definition_.precision # "F16" => ~cc.adreno4xx_optimization
    /\ definition_.storage_type # "TEXTURE_ARRAY" => ~cc.adreno4xx_optimization
    /\ device # "Adreno4xx" => ~cc.adreno4xx_optimization

C5_Witness ==
  /\ cc.called /\ ~cc.adreno4xx_optimization
  /\ stride_ = int2(1, 1) /\ padding_.x = 0 /\ padding_.y # 0
  /\ definition_.precision = "F16" /\ definition_.storage_type = "TEXTURE_ARRAY"
  /\ device = "Adreno4xx"

(* C6: Compile hands the compiler the option ADRENO_FULL_SIMD_LINE iff the  *)
(* device is an Adreno of the 3xx tier, the precision is F16 and the window *)
(* is 1x1; for F32 and F32_F16 the option list is empty on every device.    *)
C6_FullSimdOption ==
  cc.called =>
    /\ cc.options =
         IF /\ device \in {"Adreno3xx", "Adreno4xx", "Adreno5xx"} /\ device = "Adreno3xx"
            /\ definition_.precision = "F16" /\ kernel_size_ = int2(1, 1)
         THEN <<"ADRENO_FULL_SIMD_LINE">> ELSE <<>>
    /\ definition_.precision \in {"F32", "F32_F16"} => cc.options = <<>>
    /\ kernel_.compiled => kernel_.options = cc.options

C6_Witness ==
  cc.called /\ kernel_.compiled /\ kernel_.options = <<"ADRENO_FULL_SIMD_LINE">>

(* C7: a BindArguments call that succeeds right after a successful          *)
(* BindArguments call, the tensors unchanged, leaves the kernel as it was   *)
(* (same arguments, same count, bound from position 0 again); and no        *)
(* BindArguments call changes kernel_size_, stride_, padding_, dilation_,   *)
(* block_size_ or work_group_size_.                                         *)
C7_BindIdempotent ==
  [][ret'.op = "BindArguments" =>
       /\ (ret.op = "BindArguments" /\ ret.status = OK /\ ret'.status = OK) =>
            /\ kernel_'.args = kernel_.args
            /\ kernel_'.binding_counter = kernel_.binding_counter
            /\ kernel_'.binding_counter = Len(kernel_'.args)
       /\ UNCHANGED <<kernel_size_, stride_, padding_, dilation_, block_size_,
                      work_group_size_>>]_vars

C7_Witness ==
  ret.op = "BindArguments" /\ ret.status = OK /\ ret.repeat >= 2

(* C8: a Tune call that returns an error, from BindArguments or from the    *)
(* search, leaves work_group_size_ as it was and the operation compiled and *)
(* dispatchable; work_group_size_ changes only in a Tune call that returns  *)
(* OK (or at construction).                                                 *)
C8_TuneKeepsWorkGroupOnError ==
  [][/\ (ret'.op = "Tune" /\ ret'.status # OK) =>
          /\ work_group_size_' = work_group_size_
          /\ kernel_'.compiled /\ CanBind'
     /\ work_group_size_' # work_group_size_ =>
          \/ ret'.op = "Tune" /\ ret'.status = OK
          \/ ret'.op = "CreateConvTexture"]_vars

C8_Witness ==
  /\ ret.op = "Tune" /\ ret.status = "TuneError"
  /\ work_group_size_ # int3(DefaultWorkGroupX, DefaultWorkGroupY, DefaultWorkGroupZ)

(* C9: an AddToQueue call whose BindArguments fails submits nothing and     *)
(* returns that error; otherwise it submits exactly one dispatch, after     *)
(* every argument is bound, with the grid of GetGridSize and the current    *)
(* work_group_size_, and returns the status of that dispatch.               *)
C9_AddToQueueBindsThenDispatches ==
  [][ret'.op = "AddToQueue" =>
       /\ ret'.trace[1].call = "BindArguments"
       /\ ret'.trace[1].status # OK =>
            /\ Len(ret'.trace) = 1
            /\ queue' = queue
            /\ ret'.status = ret'.trace[1].status
       /\ ret'.trace[1].status = OK =>
            /\ Len(ret'.trace) = 2
            /\ ret'.trace[2].call = "DispatchImplicit"
            /\ ret'.status = ret'.trace[2].status
            /\ queue'.submitted = queue.submitted + 1
            /\ queue'.last = [args |-> BoundArgs, grid |-> GetGridSize,
                              work_group_size |-> work_group_size_,
                              status |-> ret'.status]
            /\ kernel_'.args = BoundArgs]_vars

C9_Witness ==
  ret.op = "AddToQueue" /\ ret.status = "DispatchError" /\ queue.submitted = 1

(* C10: CreateConvTexture returns OK only if the weight upload and the bias *)
(* table creation both succeeded; a failed upload is returned without the   *)
(* bias table being attempted; a failed bias creation is returned; and a    *)
(* controller whose creation failed is never one that was created.          *)
C10_CreateReportsUploadErrors ==
  /\ ret.op = "CreateConvTexture" =>
       /\ ret.status = OK =>
            /\ ret.trace = <<Call("UploadWeights", OK), Call("CreateLinearStorage", OK)>>
            /\ weights_ = 1 /\ biases_ = 1
       /\ ret.trace[1].call = "UploadWeights"
       /\ ret.trace[1].status # OK =>
            /\ ret.status = ret.trace[1].status
            /\ Len(ret.trace) = 1 /\ biases_ = 0
       /\ (Len(ret.trace) = 2 /\ ret.trace[2].status # OK) =>
            /\ ret.trace[2].call = "CreateLinearStorage"
            /\ ret.status = ret.trace[2].status
       /\ ret.status # OK => state = "Invalid"
  /\ state \in {"Created", "Compiled"} => weights_ = 1 /\ biases_ = 1

C10_Witness ==
  /\ ret.op = "CreateConvTexture" /\ ret.status = "UploadError"
  /\ state = "Invalid" /\ biases_ = 0

(* The kernel Compile would generate for the same operation without the     *)
(* fast path: the epilogue addresses the destination by X and Y.            *)
CodeWithoutFastPath ==
  GenerateConvCode(definition_, block_size_, Is1x1, FALSE, stride_, device,
                   linked_operations_)

(* C11: in a kernel generated with the fast path (1x1 window and            *)
(* adreno4xx_optimization, as Compile computes them) and run with the       *)
(* arguments BindArguments binds, every invocation has xc0 = X and yc0 = Y, *)
(* for every batch size, and its stores are the stores of the kernel        *)
(* generated without the fast path.                                         *)
C11_FastPathCoordinatesCoincide ==
  (/\ run.active /\ run.code.dst_x = "xc0" /\ run.code.dst_y = "yc0"
   /\ run.next > 0 /\ ~run.last.exited) =>
    /\ cc.is1x1 /\ cc.adreno4xx_optimization
    /\ run.last.xc[1] = run.last.X
    /\ run.last.yc[1] = run.last.Y
    /\ run.last.stores =
         KernelInvocation(CodeWithoutFastPath, run.args, run.last.gid).stores

C11_Witness ==
  /\ run.active /\ run.code.dst_x = "xc0" /\ run.code.dst_y = "yc0"
  /\ run.next > 0 /\ ~run.last.exited
  /\ run.last.X > 0 /\ run.last.Y > 0
  /\ src_.Batch = MaxBatch
  /\ run.last.stores # {}
  /\ Cardinality(run.last.stores) < block_size_.x * block_size_.y * block_size_.z

(* The tap of a load lies inside the source: [0,src_size.x) x [0,src_size.y).*)
TapInside(l) ==
  LET src_size == KernelArg(run.code, run.args, "src_size") IN
  /\ 0 <= l.cx /\ l.cx < src_size[1]
  /\ 0 <= l.cy /\ l.cy < src_size[2]

(* C12: with IMAGE_BUFFER source storage every tile element is read, at     *)
(* every tap and every iteration s of the loop over the input channel       *)
(* groups, at address -1 when its tap coordinate (cx, cy) lies outside the  *)
(* source and at cy*src_size.x + cx + s*src_size.x*src_size.y when it lies  *)
(* inside; an inside tap never reads -1 and stays within the source.        *)
C12_ImageBufferAddresses ==
  (/\ run.active /\ run.code.is_image_buffer
   /\ run.next > 0 /\ ~run.last.exited) =>
    LET src_size == KernelArg(run.code, run.args, "src_size")
        bs == run.code.block_size IN
    /\ \A l \in run.last.loads :
         /\ l.read = "Read"
         /\ ~TapInside(l) => l.at = <<-1>>
         /\ TapInside(l) =>
              /\ l.at = <<l.cy * src_size[1] + l.cx + l.s * src_size[1] * src_size[2]>>
              /\ l.at[1] >= 0
              /\ l.at[1] < src_size[1] * src_size[2] * src_size[4]
    /\ \A x \in 0..(bs.x - 1), y \in 0..(bs.y - 1), s \in 0..(src_size[4] - 1) :
         \E l \in run.last.loads : l.x = x /\ l.y = y /\ l.s = s

C12_Witness ==
  /\ run.active /\ run.code.is_image_buffer /\ ~run.code.is1x1
  /\ run.next > 0 /\ ~run.last.exited
  /\ \E l \in run.last.loads : l.s > 0 /\ ~TapInside(l) /\ l.at = <<-1>>
  /\ \E l \in run.last.loads : l.s > 0 /\ TapInside(l) /\ l.cx > 0 /\ l.cy > 0

(* The tile element (x, y, z) that accumulator r belongs to under the       *)
(* numbering r = (z * block.y + y) * block.x + x.                           *)
TileOf(bs, r) == <<r % bs.x, (r \div bs.x) % bs.y, r \div (bs.x * bs.y)>>

(* C13: accumulator (z*block.y + y)*block.x + x is accumulated only from    *)
(* source register y*block.x + x, which holds tile element (x, y), times    *)
(* the filter registers f[4z..4z+3], read at column Z0 + z of the filter    *)
(* images; the epilogue stores it only at (X + x, Y + y, Z0 + z), Z0 being  *)
(* the invocation's initial Z; every accumulator of the tile is used.       *)
C13_AccumulatorsMatchTile ==
  (/\ run.active /\ run.next > 0 /\ ~run.last.exited) =>
    LET bs == run.code.block_size
        inv == run.last
        loaded == {<<l.id, l.tap, l.s>> : l \in inv.loads} IN
    /\ \A l \in inv.loads : l.id = l.y * bs.x + l.x
    /\ \A a \in inv.accums :
         LET t == TileOf(bs, a.r) IN
         /\ a.r \in 0..(bs.x * bs.y * bs.z - 1)
         /\ a.src = t[2] * bs.x + t[1]
         /\ \A it \in inv.iterations : <<a.src, it.tap, it.s>> \in loaded
         /\ a.f = <<4 * t[3], 4 * t[3] + 1, 4 * t[3] + 2, 4 * t[3] + 3>>
         /\ \A j \in 1..4 : a.fx[j] = inv.Z + t[3]
    /\ {a.r : a \in inv.accums} = 0..(bs.x * bs.y * bs.z - 1)
    /\ Cardinality(inv.accums) = bs.x * bs.y * bs.z
    /\ \A st \in inv.stores :
         LET t == TileOf(bs, st.r) IN
         /\ st.x = inv.X + t[1]
         /\ st.y = inv.Y + t[2]
         /\ st.z = inv.Z + t[3]

C13_Witness ==
  /\ run.active /\ run.next > 0 /\ ~run.last.exited
  /\ block_size_.x > 1 /\ block_size_.z > 1
  /\ run.last.X > 0 /\ run.last.Z > 0
  /\ ~run.code.is1x1
  /\ \E st \in run.last.stores : st.r > 0
  /\ \E a \in run.last.accums : a.conv > 0 /\ a.src > 0
  /\ \E it \in run.last.iterations : it.s > 0 /\ it.f_y > it.s
====
